---- MODULE Spec2Model ----
(***************************************************************************)
(* LoginDialog (react/features/authentication/components/LoginDialog.native.js) *)
(* as a state machine: the Redux state the dialog is connected to, the     *)
(* projection _mapStateToProps, render(), the four event handlers and the  *)
(* actions they dispatch to the store.                                     *)
(*                                                                         *)
(* JavaScript values are tagged tuples, so that undefined, null, booleans, *)
(* strings and objects can be told apart and compared: <<"undefined">>,    *)
(* <<"null">>, <<"boolean", b>>, <<"string", s>>, <<"object", r>>.         *)
(* A property an object does not have reads as undefined, so every object  *)
(* record carries all its properties, the missing ones as Undefined.       *)
(* The texts typed into the two TextInputs and the JID built from them are *)
(* always strings and are kept as plain strings.                           *)
(***************************************************************************)
EXTENDS Integers, Sequences, FiniteSets, TLC

VARIABLES
    state,       \* the Redux state (the four features _mapStateToProps reads)
    username,    \* this.state.username
    password,    \* this.state.password
    props,       \* this.props as projected by reduxConnect(_mapStateToProps)
    rendered,    \* what the last render() returned
    dispatched,  \* actions passed to props.dispatch and not yet reduced by the store
    handler      \* the callback that ran last

vars == <<state, username, password, props, rendered, dispatched, handler>>

\* The number of dispatched actions the store may have pending.
MaxDispatched == 1

----------------------------------------------------------------------------
\* JavaScript values and the conversions the component applies to them.

Undefined == <<"undefined">>
Null == <<"null">>
Bool(b) == <<"boolean", b>>
Str(s) == <<"string", s>>
Obj(r) == <<"object", r>>

\* o.name
Prop(o, name) == o[2][name]

\* The condition of `if (v)`, `v ? a : b`, `v && w`, `v || w`, and Boolean(v).
Truthy(v) ==
    CASE v[1] = "undefined" -> FALSE
      [] v[1] = "null" -> FALSE
      [] v[1] = "boolean" -> v[2]
      [] v[1] = "string" -> v[2] # ""
      [] v[1] = "object" -> TRUE

\* a || b
Or(a, b) == IF Truthy(a) THEN a ELSE b

\* The string a template literal `${v}` produces.
String(v) ==
    CASE v[1] = "undefined" -> "undefined"
      [] v[1] = "null" -> "null"
      [] v[1] = "boolean" -> (IF v[2] THEN "true" ELSE "false")
      [] v[1] = "string" -> v[2]
      [] v[1] = "object" -> "[object Object]"

\* id.indexOf(ch) >= 0
Contains(id, ch) == \E i \in 1..Len(id) : SubSeq(id, i, i) = ch

\* JitsiConnectionErrors.PASSWORD_REQUIRED
PASSWORD_REQUIRED == "connection.passwordRequired"

\* t(key, options): the translation requested from i18n.
t(key, options) == <<"translated", key, options>>

----------------------------------------------------------------------------
\* The Redux state.

AUTHENTICATION == "features/authentication"
CONFERENCE == "features/base/conference"
CONFIG == "features/base/config"
CONNECTION == "features/base/connection"

\* The credentials objects a failed attempt may carry.
Credentials ==
    { Obj([jid |-> j, password |-> p]) :
        j \in {Undefined, Str("user@d.tld")}, p \in {Undefined, Str("secret")} }

\* The errors lib-jitsi-meet reports for a connection.
ConnectionErrors == {Str(PASSWORD_REQUIRED), Str("connection.otherError")}

UpgradeRoleErrors ==
    { Obj([connectionError |-> c, authenticationError |-> a,
           message |-> m, credentials |-> k]) :
        c \in {Undefined} \cup ConnectionErrors,
        a \in {Undefined, Str("not-authorized")},
        m \in {Undefined, Str("upgrade failed")},
        k \in {Undefined, Obj([jid |-> Str("admin@a.tld"), password |-> Str("pw2")])} }

Hosts ==
    { Obj([domain |-> Str("d.tld"), authdomain |-> a]) :
        a \in {Undefined, Str("a.tld")} }

\* The values each field of the state takes.
FieldValues(f) ==
    CASE f = <<AUTHENTICATION, "upgradeRoleError">> -> {Undefined} \cup UpgradeRoleErrors
      [] f = <<AUTHENTICATION, "upgradeRoleInProgress">> -> {Undefined, Obj("thenable")}
      [] f = <<AUTHENTICATION, "upgradeRoleLoginOk">> -> {Undefined, Bool(FALSE), Bool(TRUE)}
      [] f = <<CONFERENCE, "authRequired">> -> {Undefined, Obj("JitsiConference")}
      [] f = <<CONFIG, "hosts">> -> Hosts
      [] f = <<CONNECTION, "connecting">> -> {Undefined, Obj("connection")}
      [] f = <<CONNECTION, "credentials">> -> {Undefined} \cup Credentials
      [] f = <<CONNECTION, "error">> -> {Undefined} \cup ConnectionErrors
      [] f = <<CONNECTION, "errorMessage">> -> {Undefined, Str("details")}

AllFields ==
    { <<AUTHENTICATION, "upgradeRoleError">>, <<AUTHENTICATION, "upgradeRoleInProgress">>,
      <<AUTHENTICATION, "upgradeRoleLoginOk">>, <<CONFERENCE, "authRequired">>,
      <<CONFIG, "hosts">>, <<CONNECTION, "connecting">>, <<CONNECTION, "credentials">>,
      <<CONNECTION, "error">>, <<CONNECTION, "errorMessage">> }

\* The fields the handlers and the claims about them read.
DialogFields ==
    { <<CONFERENCE, "authRequired">>, <<CONFIG, "hosts">>,
      <<CONNECTION, "connecting">>, <<CONNECTION, "error">> }

InitialState ==
    (AUTHENTICATION :> [upgradeRoleError |-> Undefined,
                        upgradeRoleInProgress |-> Undefined,
                        upgradeRoleLoginOk |-> Undefined])
    @@ (CONFERENCE :> [authRequired |-> Undefined])
    @@ (CONFIG :> [hosts |-> Obj([domain |-> Str("d.tld"), authdomain |-> Undefined])])
    @@ (CONNECTION :> [connecting |-> Undefined, credentials |-> Undefined,
                       error |-> Undefined, errorMessage |-> Undefined])

\* The texts the user types.
Usernames == {"u", "u@x.tld"}
Passwords == {"pw"}

----------------------------------------------------------------------------
\* toJid(id, { authdomain, domain }) of features/base/connection.
toJid(id, hosts) ==
    IF Contains(id, "@")
    THEN id
    ELSE id \o "@" \o String(Or(Prop(hosts, "authdomain"), Prop(hosts, "domain")))

\* The action creators.
connect(id, pw) == [type |-> "connect", id |-> id, password |-> pw]

authenticateAndUpgradeRole(id, pw, conference) ==
    [type |-> "authenticateAndUpgradeRole", id |-> id, password |-> pw,
     conference |-> conference]

cancelLogin == [type |-> "cancelLogin"]

----------------------------------------------------------------------------
\* The error, its details and its credentials _mapStateToProps selects.
ProjectedError_ConnectionCredentials(s) ==
    LET upgradeRoleError == s[AUTHENTICATION].upgradeRoleError
        connectionError == s[CONNECTION].error
    IN  IF Truthy(connectionError)
        THEN [error |-> connectionError,
              errorDetails |-> s[CONNECTION].errorMessage,
              errorCredentials |-> s[CONNECTION].credentials]
        ELSE IF Truthy(upgradeRoleError)
        THEN [error |-> Or(Prop(upgradeRoleError, "connectionError"),
                           Prop(upgradeRoleError, "authenticationError")),
              errorDetails |-> Prop(upgradeRoleError, "message"),
              errorCredentials |-> s[CONNECTION].credentials]
        ELSE [error |-> Undefined, errorDetails |-> Undefined,
              errorCredentials |-> Undefined]

ProjectedError(s) ==
    LET upgradeRoleError == s[AUTHENTICATION].upgradeRoleError
        credentials == s[CONNECTION].credentials
        connectionError == s[CONNECTION].error
        connectionErrorMessage == s[CONNECTION].errorMessage
    IN  IF Truthy(connectionError)
        THEN [error |-> connectionError,
              errorDetails |-> connectionErrorMessage,
              errorCredentials |-> credentials]
        ELSE IF Truthy(upgradeRoleError)
        THEN [error |-> Or(Prop(upgradeRoleError, "connectionError"),
                           Prop(upgradeRoleError, "authenticationError")),
              errorDetails |-> Prop(upgradeRoleError, "message"),
              errorCredentials |-> Prop(upgradeRoleError, "credentials")]
        ELSE [error |-> Undefined, errorDetails |-> Undefined,
              errorCredentials |-> Undefined]

\* _mapStateToProps(state)
_mapStateToProps_ConnectingOnly(s) ==
    [ _errorCredentials |-> ProjectedError(s).errorCredentials,
      _conference |-> s[CONFERENCE].authRequired,
      _configHosts |-> s[CONFIG].hosts,
      _connecting |-> Bool(Truthy(s[CONNECTION].connecting)),
      _error |-> ProjectedError(s).error,
      _errorDetails |-> ProjectedError(s).errorDetails,
      _upgradeRoleLoginOk |-> s[AUTHENTICATION].upgradeRoleLoginOk ]

_mapStateToProps(s) ==
    LET upgradeRoleInProgress == s[AUTHENTICATION].upgradeRoleInProgress
        upgradeRoleLoginOk == s[AUTHENTICATION].upgradeRoleLoginOk
        authRequired == s[CONFERENCE].authRequired
        configHosts == s[CONFIG].hosts
        connecting == s[CONNECTION].connecting
    IN  [ _errorCredentials |-> ProjectedError(s).errorCredentials,
          _conference |-> authRequired,
          _configHosts |-> configHosts,
          _connecting |-> Bool(Truthy(connecting) \/ Truthy(upgradeRoleInProgress)),
          _error |-> ProjectedError(s).error,
          _errorDetails |-> ProjectedError(s).errorDetails,
          _upgradeRoleLoginOk |-> upgradeRoleLoginOk ]

\* render(): messageKey
messageKey_ErrorFirst(p) ==
    IF p._error = Str(PASSWORD_REQUIRED)
    THEN IF /\ Truthy(p._errorCredentials)
            /\ \/ Truthy(Prop(p._errorCredentials, "jid"))
               \/ ~Truthy(Prop(p._errorCredentials, "password"))
         THEN Str("dialog.incorrectPassword")
         ELSE Null
    ELSE IF Truthy(p._error) THEN Str("dialog.connectErrorWithMsg")
    ELSE IF Truthy(p._upgradeRoleLoginOk) THEN Str("connection.FETCH_SESSION_ID")
    ELSE Str("")

messageKey(p) ==
    LET error == p._error
        errorCredentials == p._errorCredentials
        upgradeRoleLoginOk == p._upgradeRoleLoginOk
    IN  IF Truthy(upgradeRoleLoginOk) THEN Str("connection.FETCH_SESSION_ID")
        ELSE IF error = Str(PASSWORD_REQUIRED)
        THEN IF /\ Truthy(errorCredentials)
                /\ \/ Truthy(Prop(errorCredentials, "jid"))
                   \/ ~Truthy(Prop(errorCredentials, "password"))
             THEN Str("dialog.incorrectPassword")
             ELSE Null
        ELSE IF Truthy(error) THEN Str("dialog.connectErrorWithMsg")
        ELSE Str("")

\* render(): messageOptions, {} unless the last branch sets msg
messageOptions(p) ==
    LET error == p._error
        errorDetails == p._errorDetails
    IN  IF /\ ~Truthy(p._upgradeRoleLoginOk)
           /\ error # Str(PASSWORD_REQUIRED)
           /\ Truthy(error)
        THEN Obj([msg |-> Str(String(error) \o " " \o String(errorDetails))])
        ELSE Obj([msg |-> Undefined])

\* render(): the props of the Dialog and of its children that depend on the
\* component's props and state.
render(p, user, pw) ==
    LET connecting == p._connecting
    IN  [ okDisabled |-> connecting,
          username |-> user,
          password |-> pw,
          text |-> IF Truthy(messageKey(p)) THEN t(messageKey(p), messageOptions(p))
                   ELSE IF Truthy(connecting) THEN t(Str("connection.CONNECTING"), Undefined)
                   ELSE Str("") ]

----------------------------------------------------------------------------
\* constructor(props), the first projection and the first render.
Init ==
    /\ state = InitialState
    /\ username = ""
    /\ password = ""
    /\ props = _mapStateToProps(InitialState)
    /\ rendered = render(_mapStateToProps(InitialState), "", "")
    /\ dispatched = <<>>
    /\ handler = "constructor"

\* _onUsernameChange(text): setState, then React renders again.
_onUsernameChange(text) ==
    /\ username' = text
    /\ rendered' = render(props, text, password)
    /\ handler' = "_onUsernameChange"
    /\ UNCHANGED <<state, password, props, dispatched>>

\* _onPasswordChange(text)
_onPasswordChange(text) ==
    /\ password' = text
    /\ rendered' = render(props, username, text)
    /\ handler' = "_onPasswordChange"
    /\ UNCHANGED <<state, username, props, dispatched>>

\* _onCancel()
_onCancel_OnlyWhenIdle ==
    /\ Len(dispatched) < MaxDispatched
    /\ dispatched' = IF Truthy(props._connecting) THEN dispatched
                     ELSE Append(dispatched, cancelLogin)
    /\ handler' = "_onCancel"
    /\ UNCHANGED <<state, username, password, props, rendered>>

_onCancel_ResetsInput ==
    /\ Len(dispatched) < MaxDispatched
    /\ dispatched' = Append(dispatched, cancelLogin)
    /\ username' = ""
    /\ password' = ""
    /\ rendered' = render(props, "", "")
    /\ handler' = "_onCancel"
    /\ UNCHANGED <<state, props>>

_onCancel ==
    /\ Len(dispatched) < MaxDispatched
    /\ dispatched' = Append(dispatched, cancelLogin)
    /\ handler' = "_onCancel"
    /\ UNCHANGED <<state, username, password, props, rendered>>

\* _onLogin(). render() hands `connecting` to Dialog as okDisabled; the handler
\* itself tests nothing, so it is enabled in every state.
_onLogin_NoUpgrade ==
    /\ Len(dispatched) < MaxDispatched
    /\ dispatched' =
          Append(dispatched, connect(toJid(username, props._configHosts), password))
    /\ handler' = "_onLogin"
    /\ UNCHANGED <<state, username, password, props, rendered>>

_onLogin_RawUsername ==
    /\ Len(dispatched) < MaxDispatched
    /\ dispatched' =
          IF Truthy(props._conference)
          THEN Append(dispatched,
                      authenticateAndUpgradeRole(toJid(username, props._configHosts),
                                                 password, props._conference))
          ELSE Append(dispatched, connect(username, password))
    /\ handler' = "_onLogin"
    /\ UNCHANGED <<state, username, password, props, rendered>>

_onLogin ==
    LET conference == props._conference
        jid == toJid(username, props._configHosts)
    IN  /\ Len(dispatched) < MaxDispatched
        /\ dispatched' =
              IF Truthy(conference)
              THEN Append(dispatched, authenticateAndUpgradeRole(jid, password, conference))
              ELSE Append(dispatched, connect(jid, password))
        /\ handler' = "_onLogin"
        /\ UNCHANGED <<state, username, password, props, rendered>>

\* The store has reduced an action that changed field f to v: reduxConnect
\* projects the new state and the component renders again.
StoreUpdate_StaleProps(f, v) ==
    /\ state' = [state EXCEPT ![f[1]][f[2]] = v]
    /\ props' = props
    /\ rendered' = render(props', username, password)
    /\ handler' = "store"
    /\ UNCHANGED <<username, password>>

StoreUpdate(f, v) ==
    /\ state' = [state EXCEPT ![f[1]][f[2]] = v]
    /\ props' = _mapStateToProps(state')
    /\ rendered' = render(props', username, password)
    /\ handler' = "store"
    /\ UNCHANGED <<username, password>>

\* The store reduces the oldest action the dialog dispatched.
StoreDispatch ==
    /\ dispatched # <<>>
    /\ dispatched' = Tail(dispatched)
    /\ \E f \in DialogFields : \E v \in FieldValues(f) : StoreUpdate(f, v)

\* The store reduces an action of another feature.
StoreChange ==
    /\ \E f \in AllFields : \E v \in FieldValues(f) : StoreUpdate(f, v)
    /\ UNCHANGED dispatched

Next ==
    \/ \E text \in Usernames \cup {""} : _onUsernameChange(text)
    \/ \E text \in Passwords \cup {""} : _onPasswordChange(text)
    \/ _onCancel
    \/ _onLogin
    \/ StoreDispatch

\* The dialog in use.
Spec == Init /\ [][Next]_vars

\* The projection and render() over every state of the store.
SpecStore == Init /\ [][StoreChange]_vars

----------------------------------------------------------------------------
\* Properties of the dialog.

\* The handlers of the component, as opposed to the store.
ComponentHandlers == {"_onUsernameChange", "_onPasswordChange", "_onCancel", "_onLogin"}

\* The login part of the role upgrade succeeded: upgradeRoleLoginOk is set.
LoginOkSet == state[AUTHENTICATION].upgradeRoleLoginOk = Bool(TRUE)

FetchSessionIdText == t(Str("connection.FETCH_SESSION_ID"), Obj([msg |-> Undefined]))
IncorrectPasswordText == t(Str("dialog.incorrectPassword"), Obj([msg |-> Undefined]))
ConnectingText == t(Str("connection.CONNECTING"), Undefined)

\* C1: with a conference handle (authRequired) present, a submit dispatches
\* exactly one action, authenticateAndUpgradeRole with toJid(username, hosts),
\* the password and that conference handle, and no connect action.
C1_SubmitUpgradesRole ==
    [][ (handler' = "_onLogin" /\ state[CONFERENCE].authRequired # Undefined) =>
            dispatched' = Append(dispatched,
                [type |-> "authenticateAndUpgradeRole",
                 id |-> toJid(username, state[CONFIG].hosts),
                 password |-> password,
                 conference |-> state[CONFERENCE].authRequired]) ]_vars

C1_Witness ==
    /\ handler = "_onLogin"
    /\ state[CONFERENCE].authRequired # Undefined
    /\ username = "u"
    /\ password = "pw"
    /\ dispatched[Len(dispatched)].type = "authenticateAndUpgradeRole"

\* C2: with no conference handle, a submit dispatches exactly one action, the
\* plain connect with toJid(username, hosts) and the password, and no
\* authenticateAndUpgradeRole action.
C2_SubmitConnects ==
    [][ (handler' = "_onLogin" /\ state[CONFERENCE].authRequired = Undefined) =>
            dispatched' = Append(dispatched,
                [type |-> "connect",
                 id |-> toJid(username, state[CONFIG].hosts),
                 password |-> password]) ]_vars

C2_Witness ==
    /\ handler = "_onLogin"
    /\ state[CONFERENCE].authRequired = Undefined
    /\ username = "u"
    /\ password = "pw"
    /\ dispatched[Len(dispatched)] = [type |-> "connect", id |-> "u@a.tld", password |-> "pw"]

\* C3: a cancel dispatches exactly one cancelLogin action and changes nothing
\* else, whatever the input, the connecting flag, the error and the conference
\* handle are.
C3_CancelOnlyDispatchesCancelLogin ==
    [][ handler' = "_onCancel" =>
            /\ dispatched' = Append(dispatched, [type |-> "cancelLogin"])
            /\ UNCHANGED <<state, username, password, props, rendered>> ]_vars

C3_Witness ==
    /\ handler = "_onCancel"
    /\ username # ""
    /\ password # ""
    /\ Truthy(props._connecting)
    /\ props._error # Undefined
    /\ props._conference # Undefined
    /\ dispatched[Len(dispatched)].type = "cancelLogin"

\* C8 as claimed: after a cancel the username and the password are both empty.
C8_CancelResetsInput ==
    [][ handler' = "_onCancel" => (username' = "" /\ password' = "") ]_vars

\* C8 as amended: the username and the password are empty when the instance is
\* constructed, only the edit handlers change them, and a cancel leaves them as
\* typed.
C8_CancelKeepsInput ==
    /\ username = "" /\ password = ""
    /\ [][ /\ handler' = "_onCancel" => (username' = username /\ password' = password)
           /\ username' # username => handler' = "_onUsernameChange"
           /\ password' # password => handler' = "_onPasswordChange" ]_vars

C8_Witness ==
    /\ handler = "_onCancel"
    /\ username = "u@x.tld"
    /\ password = "pw"
    /\ rendered.username = "u@x.tld"

\* C9: the props are the projection of the current Redux state alone, whatever
\* was typed and whatever happened before, and no handler of the component
\* changes the Redux state.
C9_ProjectionIsPure ==
    /\ [](props = _mapStateToProps(state))
    /\ [][ handler' \in ComponentHandlers => state' = state ]_vars

C9_Witness ==
    /\ handler \in ComponentHandlers
    /\ state # InitialState
    /\ username # ""
    /\ password # ""
    /\ props._error # Undefined

\* C4: with a password-required error and no login-ok flag, the
\* incorrect-password message is shown exactly when the failed attempt carried
\* a user ID or a password.
C4_IncorrectPasswordIffCredentials ==
    LET credentials == props._errorCredentials
        supplied ==
            /\ credentials # Undefined
            /\ \/ Prop(credentials, "jid") # Undefined
               \/ Prop(credentials, "password") # Undefined
    IN  (props._error = Str(PASSWORD_REQUIRED) /\ ~LoginOkSet) =>
            ((rendered.text = IncorrectPasswordText) <=> supplied)

\* C5 as claimed: while a role upgrade is in progress the fetch-session-id
\* message is displayed.
C5_InProgressShowsFetchSessionId ==
    state[AUTHENTICATION].upgradeRoleInProgress # Undefined =>
        rendered.text = FetchSessionIdText

\* C5 as amended: with the login-ok flag of the role upgrade set, the
\* fetch-session-id message is displayed whatever the errors, the credentials
\* and the connecting and in-progress flags are.
C5_LoginOkShowsFetchSessionId ==
    LoginOkSet => rendered.text = FetchSessionIdText

C5_Witness ==
    /\ LoginOkSet
    /\ state[CONNECTION].error = Str("connection.otherError")
    /\ state[AUTHENTICATION].upgradeRoleError # Undefined
    /\ state[CONNECTION].connecting # Undefined
    /\ rendered.text = FetchSessionIdText

\* C6: with no login-ok flag and an error other than password-required, the
\* generic message is shown and its detail is the error kind followed by the
\* diagnostic text received with it (nothing when none was received).
C6_GenericErrorWithDetails ==
    LET received ==
            IF props._errorDetails = Undefined THEN "" ELSE props._errorDetails[2]
    IN  (~LoginOkSet /\ props._error # Undefined /\ props._error # Str(PASSWORD_REQUIRED)) =>
            rendered.text =
                t(Str("dialog.connectErrorWithMsg"),
                  Obj([msg |-> Str(props._error[2] \o " " \o received)]))

\* C7: the connecting indicator is displayed exactly when a request is
\* outstanding and no message of higher priority applies; with no request
\* outstanding and no such message, nothing is displayed.
C7_ConnectingIndicator ==
    LET outstanding ==
            \/ state[CONNECTION].connecting # Undefined
            \/ state[AUTHENTICATION].upgradeRoleInProgress # Undefined
        incorrectPasswordShown ==
            /\ rendered.text[1] = "translated"
            /\ rendered.text[2] = Str("dialog.incorrectPassword")
        genericError ==
            props._error # Undefined /\ props._error # Str(PASSWORD_REQUIRED)
        higher == LoginOkSet \/ incorrectPasswordShown \/ genericError
    IN  /\ (rendered.text = ConnectingText) <=> (outstanding /\ ~higher)
        /\ (~outstanding /\ ~higher) => rendered.text = Str("")

C7_Witness ==
    /\ rendered.text = ConnectingText
    /\ state[CONNECTION].connecting = Undefined
    /\ state[AUTHENTICATION].upgradeRoleInProgress # Undefined
    /\ props._error = Str(PASSWORD_REQUIRED)

\* C10: the projected error, details and credentials come from one record:
\* the connection state when it has an error, otherwise the upgrade-role
\* error when there is one, otherwise none.
C10_ErrorFromOneSource ==
    LET connection == state[CONNECTION]
        upgradeRoleError == state[AUTHENTICATION].upgradeRoleError
        projected == <<props._error, props._errorDetails, props._errorCredentials>>
    IN  IF connection.error # Undefined
        THEN projected = <<connection.error, connection.errorMessage, connection.credentials>>
        ELSE IF upgradeRoleError # Undefined
        THEN projected =
                << IF Prop(upgradeRoleError, "connectionError") # Undefined
                   THEN Prop(upgradeRoleError, "connectionError")
                   ELSE Prop(upgradeRoleError, "authenticationError"),
                   Prop(upgradeRoleError, "message"),
                   Prop(upgradeRoleError, "credentials") >>
        ELSE projected = <<Undefined, Undefined, Undefined>>

C10_Witness ==
    /\ state[CONNECTION].error = Undefined
    /\ state[CONNECTION].credentials # Undefined
    /\ state[CONNECTION].errorMessage # Undefined
    /\ state[AUTHENTICATION].upgradeRoleError # Undefined
    /\ props._error = Str("not-authorized")
    /\ props._errorCredentials = Obj([jid |-> Str("admin@a.tld"), password |-> Str("pw2")])
====
